---- MODULE Spec2Model ----
(***************************************************************************)
(* A model of the stash watcher: scripts/stash_watcher/stash_watcher.py    *)
(* (permission fixing, the event Handler, the BackgroundPoller) and        *)
(* scripts/stash_watcher/stash_worker.py (main, wait_for_job,              *)
(* del_duplicates_main).                                                   *)
(*                                                                         *)
(* Strings are sequences of tokens ("/" and name components), so that      *)
(* str.replace, Path.parent and os.path.dirname are computed, not assumed. *)
(* File modes are the integers of the source (0o664 = 436, 0o2775 = 1533). *)
(***************************************************************************)
EXTENDS Integers, Sequences, FiniteSets, TLC

VARIABLES
    \* ---- the watcher's dispatch thread (Handler) ----
    hev,          \* the event being handled, or the last one handled
    hpc,          \* position of the dispatch thread in the handler
    hlog,         \* the calls the handler has made for hev, in order
    meta,         \* ownership and mode of the event's path and of its parent
    \* ---- stash_worker.main, one invocation per calling thread ----
    mpc,          \* position of each thread's invocation of main
    margs,        \* the paths argument each invocation was called with
    cand,         \* unorganized_scene_ids of each invocation
    still,        \* the shunned_scenes list each invocation computed
    rlog,         \* the remote calls each invocation has issued, in order
    mwait,        \* what the wait_for_job calls of each invocation ended with, in order
    \* ---- the remote server and the local file ----
    scene,        \* per scene: "absent", "unorg" (organized = false) or "org"
    shunnedFile,  \* shunned_scenes.json: whether it exists, and its content
    \* ---- one wait_for_job call ----
    wpc, wstatus, wtarget, wperiod, wtimeout, wstart, wnow, wpolls, wresult,
    \* ---- one del_duplicates_main call ----
    dpc, dgroups, ddeleted, dcalls,
    \* ---- one fix_permissions run ----
    ppc, pprev, ptree, pbefore, pchown, pchmod, perrors, pfixed, plogged, praised,
    \* ---- the process: the main thread, the observer, the BackgroundPoller ----
    spc,          \* position of the main thread in __main__ and Watcher.run
    slog,         \* what the main thread called at startup, and how each call ended
    wdirs,        \* per watch directory: whether it exists
    ostate,       \* the observer: "new", "started" or "stopped"
    stopFlag,     \* BackgroundPoller._stop_event
    stopDone,     \* BackgroundPoller.stop() has returned
    bpc,          \* position of the poller thread in BackgroundPoller.run
    bwaited,      \* ticks the poller's current wait has lasted
    blog,         \* what the poller's last cycle called, and how each call ended
    \* ---- the tagging sweep of main, run after run ----
    tags,         \* per scene: the names of its tags on the server
    tpc,          \* how the last sweep ended: "none", "done" or "raised"
    truns,        \* the number of sweeps so far
    tsel,         \* non_ai_tagged_scenes of the last sweep
    tsent,        \* the update_scenes calls of the last sweep
    \* ---- the observer's event queue ----
    oqueue        \* the events emitted and not yet handed to the handler

watcherVars == <<hev, hpc, hlog, meta>>
workerVars  == <<mpc, margs, cand, still, rlog, mwait>>
serverVars  == <<scene, shunnedFile>>
waitVars    == <<wpc, wstatus, wtarget, wperiod, wtimeout, wstart, wnow, wpolls, wresult>>
dupVars     == <<dpc, dgroups, ddeleted, dcalls>>
permVars    == <<ppc, pprev, ptree, pbefore, pchown, pchmod, perrors, pfixed, plogged, praised>>
procVars    == <<spc, slog, wdirs, ostate, stopFlag, stopDone, bpc, bwaited, blog>>
tagVars     == <<tags, tpc, truns, tsel, tsent>>
queueVars   == <<oqueue>>
vars == <<watcherVars, workerVars, serverVars, waitVars, dupVars, permVars, procVars,
          tagVars, queueVars>>

(***************************************************************************)
(* Bounds of the model.                                                    *)
(***************************************************************************)
NScenes == 2
MaxSize == 2          \* file sizes are 1..MaxSize
MaxPeriod == 2        \* wait_for_job: period is 1..MaxPeriod clock ticks
MaxTimeout == 4       \* wait_for_job: timeout is 0..MaxTimeout clock ticks
MaxDelay == 1         \* a poll takes, and a sleep overruns by, 0..MaxDelay ticks
Scenes == 1..NScenes

(***************************************************************************)
(* Sequence helpers.                                                       *)
(***************************************************************************)
Range(s) == {s[i] : i \in 1..Len(s)}

RECURSIVE Flatten(_)
Flatten(ss) == IF ss = <<>> THEN <<>> ELSE Head(ss) \o Flatten(Tail(ss))

(***************************************************************************)
(* Paths.                                                                  *)
(***************************************************************************)
FilePath == <<"/", "lib", "/", "movies", "/", "foo.mp4">>
DirPath  == <<"/", "lib", "/", "movies">>
NoneStr  == <<"None">>

\* ai_config.path_mutation as copied at stash_worker.py:33, in item order.
PathMutation == << <<(<<"/", "lib">>), (<<"/", "mnt", "/", "lib">>)>> >>

\* Index of the last "/" of p, 0 when there is none.
RECURSIVE LastSep(_)
LastSep(p) ==
    IF p = <<>> THEN 0
    ELSE IF p[Len(p)] = "/" THEN Len(p)
    ELSE LastSep(SubSeq(p, 1, Len(p) - 1))

\* pathlib: Path(p).parent
PathParent(p) ==
    LET i == LastSep(p) IN
    IF i = 0 THEN <<".">> ELSE IF i = 1 THEN <<"/">> ELSE SubSeq(p, 1, i - 1)

\* os.path.dirname(p)
Dirname(p) ==
    LET i == LastSep(p) IN
    IF i = 0 THEN <<>> ELSE IF i = 1 THEN <<"/">> ELSE SubSeq(p, 1, i - 1)

\* str.replace(old, new): every non-overlapping occurrence, left to right.
RECURSIVE StrReplace(_, _, _)
StrReplace(s, old, new) ==
    IF Len(s) < Len(old) \/ old = <<>> THEN s
    ELSE IF SubSeq(s, 1, Len(old)) = old
         THEN new \o StrReplace(SubSeq(s, Len(old) + 1, Len(s)), old, new)
         ELSE <<Head(s)>> \o StrReplace(Tail(s), old, new)


(***************************************************************************)
(* Permission fixing on one path: fix_single_path.                         *)
(* A metadata record is [kind, uid, gid, mode]; mode holds st_mode & 0o7777.*)
(***************************************************************************)
TARGET_UID == 1000
TARGET_GID == 1000
DirMode    == 1533      \* 0o2775
FileMode   == 436       \* 0o0664

OsErrors == {"none", "stat", "chown", "chmod"}

NeedsChown(m) == m.uid # TARGET_UID \/ m.gid # TARGET_GID

Chowned(m) == [m EXCEPT !.uid = TARGET_UID, !.gid = TARGET_GID]

\* The metadata of a path after fix_single_path(path), when err names the
\* system call that raises OSError ("none": no call raises).  An OSError
\* ends the function (except OSError: pass).
FixSinglePath(m, err) ==
    IF err = "stat" THEN m
    ELSE IF m.kind = "link" THEN m
    ELSE IF NeedsChown(m) /\ err = "chown" THEN m
    ELSE LET c    == IF NeedsChown(m) THEN Chowned(m) ELSE m
             want == IF m.kind = "dir" THEN DirMode ELSE FileMode
         IN  IF m.mode # want /\ err # "chmod" THEN [c EXCEPT !.mode = want] ELSE c

(***************************************************************************)
(* stash_worker.main: the path list sent to metadata_scan.                 *)
(***************************************************************************)
Threads == {"handler", "poller", "main"}

IsDir(p)  == p \in DOMAIN meta /\ meta[p].kind = "dir"
\* Path.is_file follows symbolic links: a link to a file is a file.
IsFile(p) == p \in DOMAIN meta /\ meta[p].kind \in {"file", "link"}

\* get_closest_parent_directory(path); None is rendered by str() as 'None'.
ClosestParent(p) ==
    IF IsDir(p) THEN p ELSE IF IsFile(p) THEN PathParent(p) ELSE NoneStr

\* The copies of path p rewritten by every (old, new) pair of path_mutation.
Rewritten(p) ==
    [j \in 1..Len(PathMutation) |->
        StrReplace(p, PathMutation[j][1], PathMutation[j][2])]

\* Lines 416-424: the list extended by the closest parent directory of each
\* entry, then by the rewritten copy of each entry of that longer list.
ExtendPaths(paths) ==
    LET p1 == paths \o [i \in 1..Len(paths) |-> ClosestParent(paths[i])]
    IN  p1 \o Flatten([i \in 1..Len(p1) |-> Rewritten(p1[i])])

\* Lines 412-424.  Line 413 sets paths to None whatever the caller passed,
\* and lines 414-415 turn None into the empty list.
ScanPaths(arg) ==
    LET paths == <<>>
    IN  ExtendPaths(paths)

(***************************************************************************)
(* del_duplicates_main.  A scene of a duplicate group is [id, sizes], sizes *)
(* being the sizes of its files, in order.                                 *)
(***************************************************************************)
MaxOf(ns) == CHOOSE m \in Range(ns) : \A x \in Range(ns) : x <= m

\* SortKey taking the first file of the scene instead of its largest.
SortKeyFirstFile(sc) == sc.sizes[1]

\* key=lambda scene: max([f["size"] for f in scene["files"]])
SortKey(sc) == MaxOf(sc.sizes)

\* list.sort is stable: x goes after every element whose key is <= its own.
RECURSIVE InsertByKey(_, _)
InsertByKey(sorted, x) ==
    IF sorted = <<>> THEN <<x>>
    ELSE IF SortKey(Head(sorted)) <= SortKey(x)
         THEN <<Head(sorted)>> \o InsertByKey(Tail(sorted), x)
         ELSE <<x>> \o sorted

RECURSIVE SortByKey(_)
SortByKey(scenes) ==
    IF scenes = <<>> THEN <<>>
    ELSE InsertByKey(SortByKey(SubSeq(scenes, 1, Len(scenes) - 1)), scenes[Len(scenes)])

\* scenes[:-1] of the sorted group, as ids.
AllButLast(sorted) ==
    IF Len(sorted) <= 1 THEN <<>> ELSE [i \in 1..(Len(sorted) - 1) |-> sorted[i].id]

\* ids_to_delete of del_duplicates_main for the groups the server returned.
IdsToDelete(groups) ==
    IF groups = <<>> THEN <<>>
    ELSE Flatten([g \in 1..Len(groups) |-> AllButLast(SortByKey(groups[g]))])

\* The ScenesDestroy calls del_duplicates_main issues: one, unless the list is empty.
DeleteCalls(groups) ==
    IF IdsToDelete(groups) # <<>> THEN <<IdsToDelete(groups)>> ELSE <<>>


(***************************************************************************)
(* The remote server as stash_worker.main sees it.                         *)
(***************************************************************************)
Present     == {s \in Scenes : scene[s] # "absent"}
\* find_scenes(f={"organized": False})
Unorganized == {s \in Scenes : scene[s] = "unorg"}

\* What a wait_for_job call can end with: True, False, None, or the timeout
\* exception.
WaitOutcomes == {"true", "false", "none", "timeout"}

RemoteCall(op, paths, ids) == [op |-> op, paths |-> paths, ids |-> ids]

\* The scenes of S in ascending id order, scene s having one file of size sz[s].
RECURSIVE SceneSeq(_, _)
SceneSeq(S, sz) ==
    IF S = {} THEN <<>>
    ELSE LET m == CHOOSE x \in S : \A y \in S : x <= y
         IN  <<[id |-> m, sizes |-> <<sz[m]>>]>> \o SceneSeq(S \ {m}, sz)

\* The answers findDuplicateScenes can give: no group, or one group of two or
\* more of the scenes the server holds.
DupAnswers ==
    {<<>>} \cup
    { <<SceneSeq(S, sz)>> :
        S \in {T \in SUBSET Present : Cardinality(T) >= 2}, sz \in [Scenes -> 1..MaxSize] }

Goto(t, pc)   == mpc' = [mpc EXCEPT ![t] = pc]
Issue(t, rc)  == rlog' = [rlog EXCEPT ![t] = Append(@, rc)]

(***************************************************************************)
(* stash_worker.main, stage by stage, for the invocation of thread t.      *)
(* A stage whose remote call fails outside a try block leaves main by an   *)
(* exception: "raised".                                                    *)
(***************************************************************************)
\* Lines 412-428: compute the path list, call metadata_scan.
MScan(t) ==
    /\ mpc[t] = "start"
    /\ \/ /\ Issue(t, RemoteCall("metadata_scan", ScanPaths(margs[t]), {}))
          /\ Goto(t, "wait_scan")
       \/ /\ Goto(t, "raised")
          /\ UNCHANGED rlog
    /\ UNCHANGED <<watcherVars, mwait, margs, cand, still, serverVars, waitVars, dupVars, permVars, procVars, tagVars, queueVars>>

\* AssertWait letting None pass, as "is not False" would.
AssertWaitNotFalse(r, next) == IF r \in {"true", "none"} THEN next ELSE "raised"

\* assert stash.wait_for_job(...): where main goes when the wait ended with
\* r.  True passes; False and None fail the assertion, and the timeout is an
\* exception of its own.
AssertWait(r, next) == IF r = "true" THEN next ELSE "raised"

Waited(t, r) == mwait' = [mwait EXCEPT ![t] = Append(@, r)]

\* Line 430: assert stash.wait_for_job(scan_job).  A finished scan may have
\* added scenes, unorganized, to the library.
MWaitScan(t) ==
    /\ mpc[t] = "wait_scan"
    /\ \E r \in WaitOutcomes :
          /\ Waited(t, r)
          /\ Goto(t, AssertWait(r, "dups"))
          /\ IF r = "true"
             THEN \E new \in SUBSET (Scenes \ Present) :
                     scene' = [s \in Scenes |-> IF s \in new THEN "unorg" ELSE scene[s]]
             ELSE UNCHANGED scene
    /\ UNCHANGED <<watcherVars, margs, cand, still, rlog, shunnedFile, waitVars, dupVars, permVars, procVars, tagVars, queueVars>>

\* Line 431: del_duplicates_main(), outside any try block.
MDups(t) ==
    /\ mpc[t] = "dups"
    /\ \/ /\ Goto(t, "raised")                 \* get_duplicate_scenes raised
          /\ UNCHANGED <<scene, rlog>>
       \/ \E groups \in DupAnswers :
             LET ids == IdsToDelete(groups) IN
             IF ids = <<>>
             THEN /\ Goto(t, "find_unorg")
                  /\ UNCHANGED <<scene, rlog>>
             ELSE \/ /\ Goto(t, "raised")      \* delete_scene_ids raised
                     /\ UNCHANGED <<scene, rlog>>
                  \/ /\ scene' = [s \in Scenes |->
                                    IF s \in Range(ids) THEN "absent" ELSE scene[s]]
                     /\ Issue(t, RemoteCall("scenesDestroy", <<>>, Range(ids)))
                     /\ Goto(t, "find_unorg")
    /\ UNCHANGED <<watcherVars, mwait, margs, cand, still, shunnedFile, waitVars, dupVars, permVars, procVars, tagVars, queueVars>>

\* Lines 434-442: the unorganized scene ids; [] when the query fails.
MFindUnorg(t) ==
    /\ mpc[t] = "find_unorg"
    /\ \E ok \in BOOLEAN :
          cand' = [cand EXCEPT ![t] = IF ok THEN Unorganized ELSE {}]
    /\ Goto(t, "read_shunned")
    /\ UNCHANGED <<watcherVars, mwait, margs, still, rlog, serverVars, waitVars, dupVars, permVars, procVars, tagVars, queueVars>>

\* NotShunned with the file not consulted.
NotShunnedFileIgnored(ids, f) == ids

\* unorganized_scene_ids after lines 445-452, for the file content f.
NotShunned(ids, f) == IF f.exists THEN ids \ f.ids ELSE ids

\* AfterFilter with the identify block entered whatever the list holds.
AfterFilterUnguarded(ids) == "identify"

\* Line 454: if unorganized_scene_ids: the block of lines 455-471 (identify,
\* wait, requery, write) is entered with a candidate left, else skipped.
AfterFilter(ids) == IF ids # {} THEN "identify" ELSE "tag_sweep"

\* Lines 445-454: drop the ids of shunned_scenes.json, when the file exists.
MReadShunned(t) ==
    /\ mpc[t] = "read_shunned"
    /\ cand' = [cand EXCEPT ![t] = NotShunned(cand[t], shunnedFile)]
    /\ Goto(t, AfterFilter(cand'[t]))
    /\ UNCHANGED <<watcherVars, mwait, margs, still, rlog, serverVars, waitVars, dupVars, permVars, procVars, tagVars, queueVars>>

\* Lines 458-460: start the identify job for the candidates.
MIdentify(t) ==
    /\ mpc[t] = "identify"
    /\ \/ /\ Issue(t, RemoteCall("metadataIdentify", <<>>, cand[t]))
          /\ Goto(t, "wait_identify")
       \/ /\ Goto(t, "raised")
          /\ UNCHANGED rlog
    /\ UNCHANGED <<watcherVars, mwait, margs, cand, still, serverVars, waitVars, dupVars, permVars, procVars, tagVars, queueVars>>

\* Line 458: assert stash.wait_for_job(...).  The finished job has set
\* organized on the candidates it could identify.
MWaitIdentify(t) ==
    /\ mpc[t] = "wait_identify"
    /\ \E r \in WaitOutcomes :
          /\ Waited(t, r)
          /\ Goto(t, AssertWait(r, "requery"))
          /\ IF r = "true"
             THEN \E done \in SUBSET (cand[t] \cap Unorganized) :
                     scene' = [s \in Scenes |-> IF s \in done THEN "org" ELSE scene[s]]
             ELSE UNCHANGED scene
    /\ UNCHANGED <<watcherVars, margs, cand, still, rlog, shunnedFile, waitVars, dupVars, permVars, procVars, tagVars, queueVars>>

\* shunned_scenes of lines 461-465: the submitted ids still unorganized.
StillUnorganized(submitted) == {s \in Unorganized : s \in submitted}

\* Lines 461-465: query the unorganized scenes again (outside any try block).
MRequery(t) ==
    /\ mpc[t] = "requery"
    /\ \/ /\ still' = [still EXCEPT ![t] = StillUnorganized(cand[t])]
          /\ Goto(t, "write_shunned")
       \/ /\ Goto(t, "raised")
          /\ UNCHANGED still
    /\ UNCHANGED <<watcherVars, mwait, margs, cand, rlog, serverVars, waitVars, dupVars, permVars, procVars, tagVars, queueVars>>

\* Written keeping the ids the file held before.
WrittenUnion(f, ids) == [exists |-> TRUE, ids |-> f.ids \cup ids]

\* The content of shunned_scenes.json after json.dump(shunned_scenes, f) on
\* a file opened with mode "w".
Written(f, ids) == [exists |-> TRUE, ids |-> ids]

\* Lines 466-471: write the file; an OSError is logged and main goes on.
MWriteShunned(t) ==
    /\ mpc[t] = "write_shunned"
    /\ \/ shunnedFile' = Written(shunnedFile, still[t])
       \/ UNCHANGED shunnedFile                \* open() raised OSError
    /\ Goto(t, "tag_sweep")
    /\ UNCHANGED <<watcherVars, mwait, margs, cand, still, rlog, scene, waitVars, dupVars, permVars, procVars, tagVars, queueVars>>

TagNames == {"AI_Tagged", "AI_TagMe"}

\* LacksMarker selecting on the tag the sweep adds.
LacksMarkerAdded(tg, S) == {s \in S : "AI_TagMe" \notin tg[s]}

\* Lines 473-477: of the scenes S find_scenes returns, those without a tag
\* named AI_Tagged.
LacksMarker(tg, S) == {s \in S : "AI_Tagged" \notin tg[s]}

\* Lines 480-487: update_scenes with mode ADD and the id of the tag AI_TagMe.
TagAdded(tg, ids) ==
    [s \in Scenes |-> IF s \in ids THEN tg[s] \cup {"AI_TagMe"} ELSE tg[s]]

\* Lines 473-489: the scenes without the tag AI_Tagged get the tag AI_TagMe.
\* Here the tags are the server's data, not followed run after run: tg is
\* any tagging of the scenes (SpecTag follows the tags).
MTagSweep(t) ==
    /\ mpc[t] = "tag_sweep"
    /\ \/ /\ Goto(t, "raised")                 \* find_scenes raised
          /\ UNCHANGED rlog
       \/ \E tg \in [Scenes -> SUBSET TagNames] :
             LET sel == LacksMarker(tg, Present) IN
             /\ IF sel # {}
                THEN \/ Issue(t, RemoteCall("update_scenes", <<>>, sel))
                     \/ UNCHANGED rlog         \* caught: except Exception
                ELSE UNCHANGED rlog
             /\ Goto(t, "ai_probe")
    /\ UNCHANGED <<watcherVars, mwait, margs, cand, still, serverVars, waitVars, dupVars, permVars, procVars, tagVars, queueVars>>

\* AfterProbe with the plugin task started whatever the probe says.
AfterProbeUnchecked(ok) == "ai_task"

\* Lines 492-495 and 501-502: the probe is inside the try block; its
\* requests.RequestException (no connection, a timeout, an HTTP error status)
\* is caught and logged, and main goes on after the block.
AfterProbe(ok) == IF ok THEN "ai_task" ELSE "generate"

\* Lines 492-495: GET <ai server>/docs and raise_for_status.
MAiProbe(t) ==
    /\ mpc[t] = "ai_probe"
    /\ \E ok \in BOOLEAN :
          /\ IF ok THEN Issue(t, RemoteCall("ai_probe", <<>>, {}))
                   ELSE UNCHANGED rlog
          /\ Goto(t, AfterProbe(ok))
    /\ UNCHANGED <<watcherVars, mwait, margs, cand, still, serverVars, waitVars, dupVars, permVars, procVars, tagVars, queueVars>>

\* Lines 496-499: run_plugin_task("ai_tagger", "Tag Scenes").  The call is
\* in the same try block: its requests.RequestException is caught, any other
\* exception leaves main.
MAiTask(t) ==
    /\ mpc[t] = "ai_task"
    /\ \/ /\ Issue(t, RemoteCall("run_plugin_task", <<>>, {}))
          /\ Goto(t, "ai_wait")
       \/ /\ Goto(t, "generate")               \* requests.RequestException, caught
          /\ UNCHANGED rlog
       \/ /\ Goto(t, "raised")
          /\ UNCHANGED rlog
    /\ UNCHANGED <<watcherVars, mwait, margs, cand, still, serverVars, waitVars, dupVars, permVars, procVars, tagVars, queueVars>>

\* Line 500: assert stash.wait_for_job(ai_tagger_job_id).
MAiWait(t) ==
    /\ mpc[t] = "ai_wait"
    /\ \E r \in WaitOutcomes : Waited(t, r) /\ Goto(t, AssertWait(r, "generate"))
    /\ UNCHANGED <<watcherVars, margs, cand, still, rlog, serverVars, waitVars, dupVars, permVars, procVars, tagVars, queueVars>>

\* Lines 504-505: stash.metadata_generate(); then main returns.
MGenerate(t) ==
    /\ mpc[t] = "generate"
    /\ \/ /\ Issue(t, RemoteCall("metadata_generate", <<>>, {}))
          /\ Goto(t, "returned")
       \/ /\ Goto(t, "raised")
          /\ UNCHANGED rlog
    /\ UNCHANGED <<watcherVars, mwait, margs, cand, still, serverVars, waitVars, dupVars, permVars, procVars, tagVars, queueVars>>


(***************************************************************************)
(* The watcher's Handler, run by the observer's dispatch thread.           *)
(***************************************************************************)
EventKinds == {"created", "moved", "modified", "deleted", "opened", "closed"}

NoEvent == [kind |-> "none", is_directory |-> FALSE, src_path |-> <<>>]

Event(k, d) ==
    [kind |-> k, is_directory |-> d, src_path |-> IF d THEN DirPath ELSE FilePath]

HandlerCall(fn, paths) == [fn |-> fn, paths |-> paths]

\* HandlerEntry with on_created and on_moved skipping the fix of the path.
HandlerEntrySkipFix(ev) ==
    IF ev.is_directory THEN "idle"
    ELSE IF ev.kind \in {"created", "moved"} THEN "fix_parent"
    ELSE IF ev.kind = "modified" THEN "call_main"
    ELSE "idle"

\* HandlerEntry with on_deleted rescanning like on_modified.
HandlerEntryDeletedRescans(ev) ==
    IF ev.is_directory THEN "idle"
    ELSE IF ev.kind \in {"created", "moved"} THEN "fix_src"
    ELSE IF ev.kind \in {"modified", "deleted"} THEN "call_main"
    ELSE "idle"

\* HandlerEntry with on_modified fixing permissions like on_created.
HandlerEntryModifiedFixes(ev) ==
    IF ev.is_directory THEN "idle"
    ELSE IF ev.kind \in {"created", "moved", "modified"} THEN "fix_src"
    ELSE "idle"

\* Where the handler method of an event starts: on_created and on_moved fix
\* the path first, on_modified calls main at once, and a directory event or
\* an event of another kind returns at once ("idle").
HandlerEntry(ev) ==
    IF ev.is_directory THEN "idle"
    ELSE IF ev.kind \in {"created", "moved"} THEN "fix_src"
    ELSE IF ev.kind = "modified" THEN "call_main"
    ELSE "idle"

\* CanDispatch with an event handed over while the handler of the previous
\* one is still running.
CanDispatchWhileBusy(h) == h # "dead"

\* The observer is one thread: it calls the handler method of an event
\* (Handler's methods run and call stash_worker.main on it, lines 183-230)
\* and takes the next event when the method has returned.
CanDispatch(h) == h = "idle"

\* The dispatch thread calls the handler method of event ev.
Handle(ev) ==
    /\ hev' = ev
    /\ hpc' = HandlerEntry(ev)
    /\ hlog' = <<>>

\* The observer, once started and until stopped, hands the next event to the
\* handler.
Dispatch ==
    /\ ostate = "started"
    /\ CanDispatch(hpc)
    /\ \E k \in EventKinds, d \in BOOLEAN : Handle(Event(k, d))
    /\ UNCHANGED <<meta, workerVars, serverVars, waitVars, dupVars, permVars, procVars, tagVars, queueVars>>

\* The file system after fix_single_path(p); lstat of a missing path raises.
FixedAt(p, err) ==
    IF p \in DOMAIN meta
    THEN [meta EXCEPT ![p] = FixSinglePath(meta[p], err)]
    ELSE meta

\* fix_single_path(event.src_path)
HFixSrc ==
    /\ hpc = "fix_src"
    /\ \E err \in OsErrors : meta' = FixedAt(hev.src_path, err)
    /\ hlog' = Append(hlog, HandlerCall("fix_single_path", <<hev.src_path>>))
    /\ hpc' = "fix_parent"
    /\ UNCHANGED <<hev, workerVars, serverVars, waitVars, dupVars, permVars, procVars, tagVars, queueVars>>

\* fix_single_path(os.path.dirname(event.src_path))
HFixParent ==
    /\ hpc = "fix_parent"
    /\ \E err \in OsErrors : meta' = FixedAt(Dirname(hev.src_path), err)
    /\ hlog' = Append(hlog, HandlerCall("fix_single_path", <<Dirname(hev.src_path)>>))
    /\ hpc' = "call_main"
    /\ UNCHANGED <<hev, workerVars, serverVars, waitVars, dupVars, permVars, procVars, tagVars, queueVars>>

\* EnterMain behind a lock: no other invocation is in progress.
EnterMainExclusive(t, paths) ==
    /\ \A u \in Threads \ {t} : mpc[u] = "idle"
    /\ mpc'   = [mpc EXCEPT ![t] = "start"]
    /\ margs' = [margs EXCEPT ![t] = paths]
    /\ cand'  = [cand EXCEPT ![t] = {}]
    /\ still' = [still EXCEPT ![t] = {}]
    /\ rlog'  = [rlog EXCEPT ![t] = <<>>]
    /\ mwait' = [mwait EXCEPT ![t] = <<>>]

\* The call of stash_worker.main(paths) by thread t: nothing is tested or
\* waited for before the invocation starts.
EnterMain(t, paths) ==
    /\ mpc'   = [mpc EXCEPT ![t] = "start"]
    /\ margs' = [margs EXCEPT ![t] = paths]
    /\ cand'  = [cand EXCEPT ![t] = {}]
    /\ still' = [still EXCEPT ![t] = {}]
    /\ rlog'  = [rlog EXCEPT ![t] = <<>>]
    /\ mwait' = [mwait EXCEPT ![t] = <<>>]

\* The end of thread t's invocation of main: its locals are gone.
LeaveMain(t) ==
    /\ mpc'   = [mpc EXCEPT ![t] = "idle"]
    /\ margs' = [margs EXCEPT ![t] = <<>>]
    /\ cand'  = [cand EXCEPT ![t] = {}]
    /\ still' = [still EXCEPT ![t] = {}]
    /\ rlog'  = [rlog EXCEPT ![t] = <<>>]
    /\ mwait' = [mwait EXCEPT ![t] = <<>>]

\* stash_worker.main([event.src_path])
HCallMain ==
    /\ hpc = "call_main"
    /\ EnterMain("handler", <<hev.src_path>>)
    /\ hlog' = Append(hlog, HandlerCall("main", <<hev.src_path>>))
    /\ hpc' = "in_main"
    /\ UNCHANGED <<hev, meta, serverVars, waitVars, dupVars, permVars, procVars, tagVars, queueVars>>

\* main returned: the handler method returns.
HMainReturned ==
    /\ hpc = "in_main"
    /\ mpc["handler"] = "returned"
    /\ LeaveMain("handler")
    /\ hpc' = "idle"
    /\ UNCHANGED <<hev, hlog, meta, serverVars, waitVars, dupVars, permVars, procVars, tagVars, queueVars>>

\* main raised: no handler method catches, the exception leaves the handler
\* and ends the dispatch thread.
HMainRaised ==
    /\ hpc = "in_main"
    /\ mpc["handler"] = "raised"
    /\ LeaveMain("handler")
    /\ hpc' = "dead"
    /\ UNCHANGED <<hev, hlog, meta, serverVars, waitVars, dupVars, permVars, procVars, tagVars, queueVars>>

(***************************************************************************)
(* Initial states.                                                         *)
(***************************************************************************)
\* A file as a downloader leaves it (or a symbolic link to one), in a
\* directory made by the same process.
InitMeta ==
    /\ \E k \in {"file", "link"} :
          meta = (FilePath :> [kind |-> k, uid |-> 0, gid |-> 0, mode |-> 420])
              @@ (DirPath :> [kind |-> "dir", uid |-> 0, gid |-> 0, mode |-> 493])

WatcherIdle ==
    /\ hev = NoEvent
    /\ hpc = "idle"
    /\ hlog = <<>>

WorkerIdle ==
    /\ mpc   = [t \in Threads |-> "idle"]
    /\ margs = [t \in Threads |-> <<>>]
    /\ cand  = [t \in Threads |-> {}]
    /\ still = [t \in Threads |-> {}]
    /\ rlog  = [t \in Threads |-> <<>>]
    /\ mwait = [t \in Threads |-> <<>>]

WaitIdle ==
    /\ wpc = "idle" /\ wstatus = "RUNNING" /\ wtarget = "FINISHED"
    /\ wperiod = 1 /\ wtimeout = 0 /\ wstart = 0 /\ wnow = 0
    /\ wpolls = <<>> /\ wresult = "unset"

DupIdle ==
    /\ dpc = "idle" /\ dgroups = <<>> /\ ddeleted = <<>> /\ dcalls = <<>>

PermIdle ==
    /\ ppc = 0 /\ pprev = "none" /\ ptree = <<>> /\ pbefore = <<>>
    /\ pchown = 0 /\ pchmod = 0 /\ perrors = 0 /\ pfixed = 0 /\ plogged = 0
    /\ praised = {}

\* The watch directories of the server's configuration.
WatchDirs == {<<"/", "lib">>, <<"/", "pics">>}

\* The process as it is once Watcher.run has started the observer and the
\* poller, the poller not yet in its loop.
ProcIdle ==
    /\ spc = "loop"
    /\ slog = <<>>
    /\ wdirs = [d \in WatchDirs |-> TRUE]
    /\ ostate = "started"
    /\ stopFlag = FALSE /\ stopDone = FALSE
    /\ bpc = "new" /\ bwaited = 0 /\ blog = <<>>

TagIdle ==
    /\ tags = [s \in Scenes |-> {}]
    /\ tpc = "none" /\ truns = 0 /\ tsel = {} /\ tsent = <<>>

QueueIdle == oqueue = <<>>

Init ==
    /\ WatcherIdle
    /\ InitMeta
    /\ WorkerIdle
    /\ scene \in [Scenes -> {"absent", "unorg", "org"}]
    /\ shunnedFile = [exists |-> FALSE, ids |-> {}]
    /\ WaitIdle /\ DupIdle /\ PermIdle /\ ProcIdle /\ TagIdle /\ QueueIdle

Next ==
    \/ Dispatch \/ HFixSrc \/ HFixParent \/ HCallMain \/ HMainReturned \/ HMainRaised
    \/ MScan("handler") \/ MWaitScan("handler") \/ MDups("handler")
    \/ MFindUnorg("handler") \/ MReadShunned("handler")
    \/ MIdentify("handler") \/ MWaitIdentify("handler") \/ MRequery("handler")
    \/ MWriteShunned("handler") \/ MTagSweep("handler")
    \/ MAiProbe("handler") \/ MAiTask("handler") \/ MAiWait("handler")
    \/ MGenerate("handler")

Spec == Init /\ [][Next]_vars

(***************************************************************************)
(* The process: __main__, Watcher, BackgroundPoller.  The main thread runs *)
(* fix_permissions and stash_worker.main, builds the Watcher, starts the   *)
(* observer and the poller and sleeps until it is interrupted.  What       *)
(* fix_permissions does to a tree is the subject of SpecPerm and what the  *)
(* stages of stash_worker.main do to the server that of Spec; here a call  *)
(* of either begins, and returns or raises.                                *)
(***************************************************************************)
PollTicks == 2         \* POLL_INTERVAL, in clock ticks

ThreadCall(fn, end) == [call |-> fn, end |-> end]

\* A call log with the end of its last call filled in.
Ended(log, end) == [log EXCEPT ![Len(log)].end = end]

\* The ways the main thread ends by an exception nobody catches, named by
\* the statement that raised.
Crashes == {"crashed_fix", "crashed_main", "crashed_config", "crashed_assert"}

\* StartupNext with the initial rescan guarded by a try block.
StartupNextRescanGuarded(call, end) ==
    IF call = "fix_permissions"
    THEN (IF end = "returned" THEN "call_main" ELSE "crashed_fix")
    ELSE "watcher_init"

\* __main__, lines 253-257: where the main thread goes when a call ends.
\* Nothing in __main__ catches an exception.
StartupNext(call, end) ==
    IF call = "fix_permissions"
    THEN (IF end = "returned" THEN "call_main" ELSE "crashed_fix")
    ELSE (IF end = "returned" THEN "watcher_init" ELSE "crashed_main")

\* Line 253: fix_permissions().
SFixBegin ==
    /\ spc = "start"
    /\ spc' = "in_fix"
    /\ slog' = Append(slog, ThreadCall("fix_permissions", "running"))
    /\ UNCHANGED <<wdirs, ostate, stopFlag, stopDone, bpc, bwaited, blog>>
    /\ UNCHANGED <<watcherVars, workerVars, serverVars, waitVars, dupVars, permVars, tagVars, queueVars>>

\* fix_permissions returns, or raises (the prints of lines 74, 95 and 97-100
\* are outside its try blocks).
SFixEnd ==
    /\ spc = "in_fix"
    /\ \E end \in {"returned", "raised"} :
          /\ spc' = StartupNext("fix_permissions", end)
          /\ slog' = Ended(slog, end)
    /\ UNCHANGED <<wdirs, ostate, stopFlag, stopDone, bpc, bwaited, blog>>
    /\ UNCHANGED <<watcherVars, workerVars, serverVars, waitVars, dupVars, permVars, tagVars, queueVars>>

\* Line 255: stash_worker.main().
SCallMain ==
    /\ spc = "call_main"
    /\ EnterMain("main", <<>>)
    /\ spc' = "in_main"
    /\ slog' = Append(slog, ThreadCall("main", "running"))
    /\ UNCHANGED <<wdirs, ostate, stopFlag, stopDone, bpc, bwaited, blog>>
    /\ UNCHANGED <<watcherVars, serverVars, waitVars, dupVars, permVars, tagVars, queueVars>>

\* main returned, or raised.
SMainEnd ==
    /\ spc = "in_main"
    /\ mpc["main"] \in {"returned", "raised"}
    /\ spc' = StartupNext("main", mpc["main"])
    /\ slog' = Ended(slog, mpc["main"])
    /\ LeaveMain("main")
    /\ UNCHANGED <<wdirs, ostate, stopFlag, stopDone, bpc, bwaited, blog>>
    /\ UNCHANGED <<watcherVars, serverVars, waitVars, dupVars, permVars, tagVars, queueVars>>

\* Lines 131-144, Watcher(): get_watch_directories() asks the server (and
\* raises when the request fails); every directory that does not exist is
\* created, an OSError of makedirs being printed and passed over.
SWatcherInit ==
    /\ spc = "watcher_init"
    /\ \/ /\ spc' = "crashed_config"           \* get_watch_directories raised
          /\ UNCHANGED wdirs
       \/ /\ \E made \in SUBSET {d \in WatchDirs : ~wdirs[d]} :
                wdirs' = [d \in WatchDirs |-> wdirs[d] \/ d \in made]
          /\ spc' = "run"
    /\ UNCHANGED <<slog, ostate, stopFlag, stopDone, bpc, bwaited, blog>>
    /\ UNCHANGED <<watcherVars, workerVars, serverVars, waitVars, dupVars, permVars, tagVars, queueVars>>

\* Subscribed with a missing directory passed over.
SubscribedSkippingMissing(dirs) == "start_poller"

\* Lines 148-150: every directory is asserted to exist and scheduled; the
\* assertion fails on the first one that does not exist.
Subscribed(dirs) ==
    IF \A d \in WatchDirs : dirs[d] THEN "start_poller" ELSE "crashed_assert"

\* Lines 147-151: subscribe to every directory, then start the observer.
SStartObserver ==
    /\ spc = "run"
    /\ spc' = Subscribed(wdirs)
    /\ ostate' = IF Subscribed(wdirs) = "start_poller" THEN "started" ELSE ostate
    /\ UNCHANGED <<slog, wdirs, stopFlag, stopDone, bpc, bwaited, blog>>
    /\ UNCHANGED <<watcherVars, workerVars, serverVars, waitVars, dupVars, permVars, tagVars, queueVars>>

\* Line 152: self.poller.start(); line 115: the thread enters run().
SStartPoller ==
    /\ spc = "start_poller"
    /\ bpc' = "test"
    /\ spc' = "loop"
    /\ UNCHANGED <<slog, wdirs, ostate, stopFlag, stopDone, bwaited, blog>>
    /\ UNCHANGED <<watcherVars, workerVars, serverVars, waitVars, dupVars, permVars, tagVars, queueVars>>

\* Lines 156-158: KeyboardInterrupt ends the sleep loop.
SInterrupt ==
    /\ spc = "loop"
    /\ bpc # "new"
    /\ spc' = "stop_poller"
    /\ UNCHANGED <<slog, wdirs, ostate, stopFlag, stopDone, bpc, bwaited, blog>>
    /\ UNCHANGED <<watcherVars, workerVars, serverVars, waitVars, dupVars, permVars, tagVars, queueVars>>

\* Lines 159, 111-112: self.poller.stop() sets the event and returns.
SStopPoller ==
    /\ spc = "stop_poller"
    /\ stopFlag' = TRUE
    /\ stopDone' = TRUE
    /\ spc' = "stop_observer"
    /\ UNCHANGED <<slog, wdirs, ostate, bpc, bwaited, blog>>
    /\ UNCHANGED <<watcherVars, workerVars, serverVars, waitVars, dupVars, permVars, tagVars, queueVars>>

\* Line 160: self.observer.stop().
SStopObserver ==
    /\ spc = "stop_observer"
    /\ ostate' = "stopped"
    /\ spc' = "join"
    /\ UNCHANGED <<slog, wdirs, stopFlag, stopDone, bpc, bwaited, blog>>
    /\ UNCHANGED <<watcherVars, workerVars, serverVars, waitVars, dupVars, permVars, tagVars, queueVars>>

\* Line 161: observer.join() returns when the dispatch thread has ended; the
\* main thread ends, and with it the poller, a daemon thread, wherever it is.
SJoin ==
    /\ spc = "join"
    /\ hpc \in {"idle", "dead"}
    /\ spc' = "exit"
    /\ bpc' = "killed"
    /\ IF mpc["poller"] # "idle" THEN LeaveMain("poller") ELSE UNCHANGED workerVars
    /\ UNCHANGED <<slog, wdirs, ostate, stopFlag, stopDone, bwaited, blog>>
    /\ UNCHANGED <<watcherVars, serverVars, waitVars, dupVars, permVars, tagVars, queueVars>>

\* Line 116: while not self._stop_event.is_set().
BTest ==
    /\ bpc = "test"
    /\ bpc' = IF stopFlag THEN "exited" ELSE "wait"
    /\ bwaited' = 0
    /\ UNCHANGED <<spc, slog, wdirs, ostate, stopFlag, stopDone, blog>>
    /\ UNCHANGED <<watcherVars, workerVars, serverVars, waitVars, dupVars, permVars, tagVars, queueVars>>

\* WaitReturns looking at the flag at the end of the interval only.
WaitReturnsSleepsOn(flag, waited) ==
    IF waited >= PollTicks THEN (IF flag THEN "true" ELSE "false") ELSE "blocked"

\* WaitReturns giving the timeout precedence over the flag.
WaitReturnsTimeoutFirst(flag, waited) ==
    IF waited >= PollTicks THEN "false" ELSE IF flag THEN "true" ELSE "blocked"

\* Line 118: what self._stop_event.wait(timeout=self.interval) returns after
\* waited ticks: True as soon as the event is set, False when the interval
\* has passed with the event not set; until then the thread is blocked.
WaitReturns(flag, waited) ==
    IF flag THEN "true" ELSE IF waited >= PollTicks THEN "false" ELSE "blocked"

\* Time passes while the poller is blocked in its wait.
BTick ==
    /\ bpc = "wait"
    /\ WaitReturns(stopFlag, bwaited) = "blocked"
    /\ bwaited' = bwaited + 1
    /\ UNCHANGED <<spc, slog, wdirs, ostate, stopFlag, stopDone, bpc, blog>>
    /\ UNCHANGED <<watcherVars, workerVars, serverVars, waitVars, dupVars, permVars, tagVars, queueVars>>

\* Lines 118-119: the wait returns True and the loop is left.
BWaitSignaled ==
    /\ bpc = "wait"
    /\ WaitReturns(stopFlag, bwaited) = "true"
    /\ bpc' = "exited"
    /\ UNCHANGED <<spc, slog, wdirs, ostate, stopFlag, stopDone, bwaited, blog>>
    /\ UNCHANGED <<watcherVars, workerVars, serverVars, waitVars, dupVars, permVars, tagVars, queueVars>>

\* Lines 118-121: the wait returns False, the try block is entered.
BWaitTimeout ==
    /\ bpc = "wait"
    /\ WaitReturns(stopFlag, bwaited) = "false"
    /\ bpc' = "try"
    /\ UNCHANGED <<spc, slog, wdirs, ostate, stopFlag, stopDone, bwaited, blog>>
    /\ UNCHANGED <<watcherVars, workerVars, serverVars, waitVars, dupVars, permVars, tagVars, queueVars>>

\* PollerNext with an exception ending the loop.
PollerNextUncaught(call, end) ==
    IF end = "raised" THEN "exited"
    ELSE IF call = "fix_permissions" THEN "call_main" ELSE "test"

\* PollerNext with fix_permissions guarded on its own.
PollerNextOwnGuard(call, end) ==
    IF call = "fix_permissions" THEN "call_main" ELSE "test"

\* Lines 120-127: where the poller goes when a call of its cycle ends.  An
\* exception of either call is caught by except Exception, which prints and
\* falls through to the loop test; fix_permissions returning leads to main,
\* main returning to the loop test.
PollerNext(call, end) ==
    IF end = "raised" THEN "test"
    ELSE IF call = "fix_permissions" THEN "call_main" ELSE "test"

\* Line 122: fix_permissions().
BFixBegin ==
    /\ bpc = "try"
    /\ bpc' = "in_fix"
    /\ blog' = <<ThreadCall("fix_permissions", "running")>>
    /\ UNCHANGED <<spc, slog, wdirs, ostate, stopFlag, stopDone, bwaited>>
    /\ UNCHANGED <<watcherVars, workerVars, serverVars, waitVars, dupVars, permVars, tagVars, queueVars>>

\* fix_permissions returns, or raises.
BFixEnd ==
    /\ bpc = "in_fix"
    /\ \E end \in {"returned", "raised"} :
          /\ bpc' = PollerNext("fix_permissions", end)
          /\ blog' = Ended(blog, end)
    /\ UNCHANGED <<spc, slog, wdirs, ostate, stopFlag, stopDone, bwaited>>
    /\ UNCHANGED <<watcherVars, workerVars, serverVars, waitVars, dupVars, permVars, tagVars, queueVars>>

\* Line 123: stash_worker.main().
BCallMain ==
    /\ bpc = "call_main"
    /\ EnterMain("poller", <<>>)
    /\ bpc' = "in_main"
    /\ blog' = Append(blog, ThreadCall("main", "running"))
    /\ UNCHANGED <<spc, slog, wdirs, ostate, stopFlag, stopDone, bwaited>>
    /\ UNCHANGED <<watcherVars, serverVars, waitVars, dupVars, permVars, tagVars, queueVars>>

\* Lines 124-127: main returned, or raised.
BMainEnd ==
    /\ bpc = "in_main"
    /\ mpc["poller"] \in {"returned", "raised"}
    /\ bpc' = PollerNext("main", mpc["poller"])
    /\ blog' = Ended(blog, mpc["poller"])
    /\ LeaveMain("poller")
    /\ UNCHANGED <<spc, slog, wdirs, ostate, stopFlag, stopDone, bwaited>>
    /\ UNCHANGED <<watcherVars, serverVars, waitVars, dupVars, permVars, tagVars, queueVars>>

\* Thread t's invocation of stash_worker.main runs to its end: it returns
\* after metadata_generate, or leaves by an exception (a remote call that
\* fails, a failed assert on wait_for_job, the timeout of wait_for_job).
\* The stages of the invocation are the subject of Spec.
MRun(t) ==
    /\ mpc[t] = "start"
    /\ \E end \in {"returned", "raised"} : Goto(t, end)
    /\ UNCHANGED <<margs, cand, still, rlog, mwait>>
    /\ UNCHANGED <<watcherVars, serverVars, waitVars, dupVars, permVars, procVars, tagVars, queueVars>>

InitProc ==
    /\ spc = "start"
    /\ slog = <<>>
    /\ wdirs \in [WatchDirs -> BOOLEAN]
    /\ ostate = "new"
    /\ stopFlag = FALSE /\ stopDone = FALSE
    /\ bpc = "new" /\ bwaited = 0 /\ blog = <<>>
    /\ WatcherIdle /\ InitMeta /\ WorkerIdle
    /\ scene = [s \in Scenes |-> "absent"]
    /\ shunnedFile = [exists |-> FALSE, ids |-> {}]
    /\ WaitIdle /\ DupIdle /\ PermIdle /\ TagIdle /\ QueueIdle

NextProc ==
    \/ SFixBegin \/ SFixEnd \/ SCallMain \/ SMainEnd
    \/ SWatcherInit \/ SStartObserver \/ SStartPoller
    \/ SInterrupt \/ SStopPoller \/ SStopObserver \/ SJoin
    \/ BTest \/ BTick \/ BWaitSignaled \/ BWaitTimeout
    \/ BFixBegin \/ BFixEnd \/ BCallMain \/ BMainEnd
    \/ Dispatch \/ HFixSrc \/ HFixParent \/ HCallMain \/ HMainReturned \/ HMainRaised
    \/ MRun("main") \/ MRun("poller") \/ MRun("handler")

SpecProc == InitProc /\ [][NextProc]_vars



(***************************************************************************)
(* wait_for_job(stash, job_id, status, period, timeout), one call.  The     *)
(* clock wnow is time.time() in ticks; the job's status is the server's.   *)
(***************************************************************************)
JobStatuses == {"READY", "RUNNING", "FINISHED", "CANCELLED", "FAILED"}
Gone        == "gone"        \* find_job finds no job

\* PollVerdict with the two tests of lines 404-407 in the other order.
PollVerdictEndedFirst(status, target) ==
    IF status = Gone THEN "none"
    ELSE IF status \in {"FINISHED", "CANCELLED"} THEN "false"
    ELSE IF status = target THEN "true"
    ELSE "continue"

\* Lines 394-408, for the status one poll saw: the value returned, or
\* "continue" when the loop sleeps and goes on.
PollVerdict(status, target) ==
    IF status = Gone THEN "none"
    ELSE IF status = target THEN "true"
    ELSE IF status \in {"FINISHED", "CANCELLED"} THEN "false"
    ELSE "continue"

\* Line 392: while time.time() < timeout_value, where line 391 set
\* timeout_value = time.time() + timeout at the start of the call.
BeforeTimeout(now, start, timeout) == now < start + timeout

\* AfterSleep with a sleep that ignores the period.
AfterSleepNoPeriod(now, period, d) == now + d

\* Line 408: the clock after time.sleep(period) that overran by d ticks.
AfterSleep(now, period, d) == now + period + d

\* Lines 392-407: the loop test passes and find_job is called.
WPoll ==
    /\ wpc = "loop"
    /\ BeforeTimeout(wnow, wstart, wtimeout)
    /\ wpolls' = Append(wpolls, [at |-> wnow, status |-> wstatus])
    /\ LET v == PollVerdict(wstatus, wtarget) IN
          IF v = "continue"
          THEN wpc' = "sleep" /\ UNCHANGED wresult
          ELSE wpc' = "done" /\ wresult' = v
    /\ \E d \in 0..MaxDelay : wnow' = wnow + d
    /\ UNCHANGED <<wstatus, wtarget, wperiod, wtimeout, wstart>>
    /\ UNCHANGED <<watcherVars, workerVars, serverVars, dupVars, permVars, procVars, tagVars, queueVars>>

\* Line 408: time.sleep(period).
WSleep ==
    /\ wpc = "sleep"
    /\ \E d \in 0..MaxDelay : wnow' = AfterSleep(wnow, wperiod, d)
    /\ wpc' = "loop"
    /\ UNCHANGED <<wstatus, wtarget, wperiod, wtimeout, wstart, wpolls, wresult>>
    /\ UNCHANGED <<watcherVars, workerVars, serverVars, dupVars, permVars, procVars, tagVars, queueVars>>

\* Lines 392, 409: the loop test fails, the timeout exception is raised.
WTimeout ==
    /\ wpc = "loop"
    /\ ~BeforeTimeout(wnow, wstart, wtimeout)
    /\ wpc' = "done"
    /\ wresult' = "timeout"
    /\ UNCHANGED <<wstatus, wtarget, wperiod, wtimeout, wstart, wnow, wpolls>>
    /\ UNCHANGED <<watcherVars, workerVars, serverVars, dupVars, permVars, procVars, tagVars, queueVars>>

\* The server runs the job: queued, running, ended; an ended job is dropped
\* from the job list after a while.
JobSuccessors(st) ==
    IF st = "READY" THEN {"RUNNING", "CANCELLED"}
    ELSE IF st = "RUNNING" THEN {"FINISHED", "CANCELLED", "FAILED"}
    ELSE IF st = Gone THEN {}
    ELSE {Gone}

WJobStep ==
    /\ wpc \in {"loop", "sleep"}
    /\ \E st \in JobSuccessors(wstatus) : wstatus' = st
    /\ UNCHANGED <<wpc, wtarget, wperiod, wtimeout, wstart, wnow, wpolls, wresult>>
    /\ UNCHANGED <<watcherVars, workerVars, serverVars, dupVars, permVars, procVars, tagVars, queueVars>>

InitWait ==
    /\ wpc = "loop"
    /\ wstatus \in JobStatuses \cup {Gone}
    /\ wtarget \in {"FINISHED", "CANCELLED", "RUNNING"}
    /\ wperiod \in 1..MaxPeriod
    /\ wtimeout \in 0..MaxTimeout
    /\ wstart \in {0, 3}
    /\ wnow = wstart
    /\ wpolls = <<>>
    /\ wresult = "unset"
    /\ WatcherIdle /\ meta = <<>> /\ WorkerIdle
    /\ scene = [s \in Scenes |-> "absent"]
    /\ shunnedFile = [exists |-> FALSE, ids |-> {}]
    /\ DupIdle /\ PermIdle /\ ProcIdle /\ TagIdle /\ QueueIdle

NextWait == WPoll \/ WSleep \/ WTimeout \/ WJobStep

SpecWait == InitWait /\ [][NextWait]_vars


(***************************************************************************)
(* Claims about wait_for_job (checked under SpecWait).                     *)
(***************************************************************************)
Undecided(i) ==
    /\ wpolls[i].status # Gone
    /\ wpolls[i].status # wtarget
    /\ wpolls[i].status \notin {"FINISHED", "CANCELLED"}

LastPoll == wpolls[Len(wpolls)]

EndsTrue ==
    /\ wresult = "true" /\ wpolls # <<>> /\ LastPoll.status = wtarget
EndsFalse ==
    /\ wresult = "false" /\ wpolls # <<>>
    /\ LastPoll.status \in {"FINISHED", "CANCELLED"} /\ LastPoll.status # wtarget
EndsNone ==
    /\ wresult = "none" /\ wpolls # <<>> /\ LastPoll.status = Gone
EndsTimeout ==
    /\ wresult = "timeout"
    /\ \A i \in 1..Len(wpolls) : Undecided(i)
    /\ wnow - wstart >= wtimeout

\* Every poll but the one that ends the call saw a status that decides nothing.
EarlierPollsUndecided ==
    \A i \in 1..Len(wpolls) : (i < Len(wpolls) \/ wpc # "done") => Undecided(i)

\* The number of polls of a call is bounded by its arguments: the last poll
\* is issued less than timeout after the start, the polls before it each
\* followed by a sleep of period.
FinitelyManyPolls == wpolls = <<>> \/ (Len(wpolls) - 1) * wperiod < wtimeout

\* C4 as stated: a finished call returned True at the first poll that saw the
\* target status, or False at the first poll that saw FINISHED or CANCELLED
\* other than the target, or raised the timeout when no poll saw either
\* before the timeout elapsed; and the call makes finitely many polls.
C4_AsStated ==
    /\ EarlierPollsUndecided
    /\ FinitelyManyPolls
    /\ wpc = "done" => (EndsTrue \/ EndsFalse \/ EndsTimeout)

\* C4 amended: as C4, with the fourth way a call ends: it returns None at the
\* first poll at which find_job finds no job.
C4_WaitForJobResult ==
    /\ EarlierPollsUndecided
    /\ FinitelyManyPolls
    /\ wpc = "done" => (EndsTrue \/ EndsFalse \/ EndsNone \/ EndsTimeout)

\* A call that returned False at its third poll or later.
C4_Witness ==
    /\ wpc = "done" /\ wresult = "false" /\ Len(wpolls) >= 3

\* C5: two consecutive polls of one call are at least period apart, and every
\* poll is issued less than timeout after the call began.
C5_PollSpacing ==
    /\ \A i \in 1..(Len(wpolls) - 1) : wpolls[i + 1].at - wpolls[i].at >= wperiod
    /\ \A i \in 1..Len(wpolls) : wpolls[i].at - wstart < wtimeout

\* A call with period 2 that polled twice and then ran into the timeout.
C5_Witness ==
    /\ wpc = "done" /\ wresult = "timeout" /\ Len(wpolls) >= 2 /\ wperiod = 2


(***************************************************************************)
(* del_duplicates_main, one call on the groups findDuplicateScenes gave.   *)
(***************************************************************************)
\* The file-size lists a scene can have: one file, or two.
SizeLists ==
    {<<a>> : a \in 1..MaxSize} \cup {<<1, a>> : a \in 1..MaxSize}
        \cup {<<a, 1>> : a \in 1..MaxSize}

\* A group of n scenes with the ids first+1 .. first+n.
GroupsOf(first, n) ==
    { [i \in 1..n |-> [id |-> first + i, sizes |-> sz[i]]] : sz \in [1..n -> SizeLists] }

\* The answers of findDuplicateScenes the call is tried on: none, one or two
\* groups of two or three scenes, every scene with its own id.
DupInputs ==
    {<<>>}
    \cup { <<g>> : g \in GroupsOf(0, 2) \cup GroupsOf(0, 3) }
    \cup { <<g, h>> : g \in GroupsOf(0, 2), h \in GroupsOf(2, 2) \cup GroupsOf(2, 3) }

\* Lines 350-362.
DDelDuplicates ==
    /\ dpc = "call"
    /\ ddeleted' = IdsToDelete(dgroups)
    /\ dcalls' = DeleteCalls(dgroups)
    /\ dpc' = "done"
    /\ UNCHANGED dgroups
    /\ UNCHANGED <<watcherVars, workerVars, serverVars, waitVars, permVars, procVars, tagVars, queueVars>>

\* Line 351: get_duplicate_scenes raises (raise_for_status).
DQueryRaises ==
    /\ dpc = "call"
    /\ dpc' = "raised"
    /\ UNCHANGED <<dgroups, ddeleted, dcalls>>
    /\ UNCHANGED <<watcherVars, workerVars, serverVars, waitVars, permVars, procVars, tagVars, queueVars>>

InitDup ==
    /\ dpc = "call"
    /\ dgroups \in DupInputs
    /\ ddeleted = <<>>
    /\ dcalls = <<>>
    /\ WatcherIdle /\ meta = <<>> /\ WorkerIdle
    /\ scene = [s \in Scenes |-> "absent"]
    /\ shunnedFile = [exists |-> FALSE, ids |-> {}]
    /\ WaitIdle /\ PermIdle /\ ProcIdle /\ TagIdle /\ QueueIdle

NextDup == DDelDuplicates \/ DQueryRaises

SpecDup == InitDup /\ [][NextDup]_vars

(***************************************************************************)
(* Claims about del_duplicates_main (checked under SpecDup).               *)
(***************************************************************************)
\* Scene a of a group has a file at least as big as every file of scene b.
HasBiggestFile(a, b) ==
    \A k \in 1..Len(b.sizes) : \E m \in 1..Len(a.sizes) : a.sizes[m] >= b.sizes[k]

KeptIn(g) == {i \in 1..Len(g) : g[i].id \notin Range(ddeleted)}

GroupIds == UNION {{dgroups[g][i].id : i \in 1..Len(dgroups[g])} : g \in 1..Len(dgroups)}

\* C6: after del_duplicates_main, each group keeps exactly one scene, one
\* whose largest file is the biggest of the group; the deletion list holds
\* every other scene of the groups once and nothing else; one ScenesDestroy
\* call carries that list, and no call is made when the list is empty.
C6_DuplicatePruning ==
    dpc = "done" =>
        /\ \A g \in 1..Len(dgroups) :
              /\ Cardinality(KeptIn(dgroups[g])) = 1
              /\ \A i \in KeptIn(dgroups[g]) : \A j \in 1..Len(dgroups[g]) :
                    HasBiggestFile(dgroups[g][i], dgroups[g][j])
        /\ Range(ddeleted) \subseteq GroupIds
        /\ Len(ddeleted) = Cardinality(Range(ddeleted))
        /\ dcalls = IF ddeleted = <<>> THEN <<>> ELSE <<ddeleted>>
        /\ dgroups = << <<[id |-> 1, sizes |-> <<2>>], [id |-> 2, sizes |-> <<1>>]>>,
                        <<[id |-> 3, sizes |-> <<1>>], [id |-> 4, sizes |-> <<2>>]>> >>
              => ddeleted = <<2, 3>>

\* The scenario of the claim, sizes 100, 50, 10, 90 scaled to 2, 1, 1, 2.
C6_Witness ==
    /\ dpc = "done"
    /\ dgroups = << <<[id |-> 1, sizes |-> <<2>>], [id |-> 2, sizes |-> <<1>>]>>,
                    <<[id |-> 3, sizes |-> <<1>>], [id |-> 4, sizes |-> <<2>>]>> >>
    /\ dcalls = << <<2, 3>> >>


(***************************************************************************)
(* fix_permissions(dirs), entry by entry in the order of os.walk.          *)
(* The tree: two roots; the first holds a file, a symbolic link and a      *)
(* directory with a file, the second (which may not exist) is empty.       *)
(***************************************************************************)
TreeKinds == <<"dir", "file", "link", "dir", "file", "dir">>
Entries   == 1..Len(TreeKinds)
SecondRoot == {6}             \* the root that may not exist
WalkDone  == Len(TreeKinds) + 1

WantedMode(kind) == IF kind = "dir" THEN DirMode ELSE FileMode

\* The lines logged one by one: errors <= 5 (lines 73 and 94).
MaxLoggedErrors == 5

\* One try block of fix_permissions (lines 60-74 for a directory, 79-95 for
\* a file) on an entry with metadata m, when err names the system call that
\* raises OSError; the directory is compared with cmpDir and set to setDir,
\* the file with cmpFile and setFile.  The result: the entry's metadata, the
\* chown and chmod calls made, the increase of fixed, whether it raised.
TryFix(m, err, cmpDir, setDir, cmpFile, setFile) ==
    LET cmp  == IF m.kind = "dir" THEN cmpDir ELSE cmpFile
        set  == IF m.kind = "dir" THEN setDir ELSE setFile
        nc   == NeedsChown(m)
        nm   == m.mode # cmp
        c    == IF nc THEN Chowned(m) ELSE m
        n(b) == IF b THEN 1 ELSE 0
        Out(mm, co, cm, fx, r) ==
            [meta |-> mm, chown |-> co, chmod |-> cm, fixed |-> fx, raised |-> r]
    IN  IF m.kind = "absent" THEN Out(m, 0, 0, 0, FALSE)
        ELSE IF err = "stat" THEN Out(m, 0, 0, 0, TRUE)
        ELSE IF m.kind = "link" THEN Out(m, 0, 0, 0, FALSE)
        ELSE IF nc /\ err = "chown" THEN Out(m, 1, 0, 0, TRUE)
        ELSE IF nm /\ err = "chmod" THEN Out(c, n(nc), 1, n(nc), TRUE)
        ELSE Out(IF nm THEN [c EXCEPT !.mode = set] ELSE c,
                 n(nc), n(nm), n(nc) + n(nm), FALSE)

\* TryFix comparing a directory's mode with 0o775, without the setgid bit.
FixEntryNoSetgid(m, err) == TryFix(m, err, 509, DirMode, FileMode, FileMode)

\* TryFix setting a file's mode to 0o644.
FixEntryFile644(m, err) == TryFix(m, err, DirMode, DirMode, FileMode, 420)

\* Lines 60-74 and 79-95 with the modes of the source.
FixEntry(m, err) == TryFix(m, err, DirMode, DirMode, FileMode, FileMode)

\* LogsError with every error logged.
LogsErrorAlways(errors) == TRUE

\* Lines 72-74 and 93-95: errors has been incremented; the entry's error is
\* printed when errors <= 5.
LogsError(errors) == errors <= MaxLoggedErrors

\* The walk handles the next entry.
PVisit ==
    /\ ppc \in Entries
    /\ \E err \in OsErrors :
          LET r == FixEntry(ptree[ppc], err) IN
          /\ ptree'   = [ptree EXCEPT ![ppc] = r.meta]
          /\ pchown'  = pchown + r.chown
          /\ pchmod'  = pchmod + r.chmod
          /\ pfixed'  = pfixed + r.fixed
          /\ perrors' = IF r.raised THEN perrors + 1 ELSE perrors
          /\ plogged' = IF r.raised /\ LogsError(perrors + 1)
                        THEN plogged + 1 ELSE plogged
          /\ praised' = IF r.raised THEN praised \cup {ppc} ELSE praised
    /\ ppc' = ppc + 1
    /\ UNCHANGED <<pprev, pbefore>>
    /\ UNCHANGED <<watcherVars, workerVars, serverVars, waitVars, dupVars, procVars, tagVars, queueVars>>

\* The run is over; fix_permissions is called again (the next poll cycle).
PRunAgain ==
    /\ ppc = WalkDone
    /\ pprev' = IF perrors = 0 THEN "clean" ELSE "none"
    /\ ppc' = 1
    /\ pbefore' = ptree
    /\ pchown' = 0 /\ pchmod' = 0 /\ perrors' = 0 /\ pfixed' = 0 /\ plogged' = 0
    /\ praised' = {}
    /\ UNCHANGED ptree
    /\ UNCHANGED <<watcherVars, workerVars, serverVars, waitVars, dupVars, procVars, tagVars, queueVars>>

Absent == [kind |-> "absent", uid |-> 0, gid |-> 0, mode |-> 0]

GoodMeta(k) ==
    IF k = "link" THEN [kind |-> k, uid |-> 0, gid |-> 0, mode |-> 511]
    ELSE [kind |-> k, uid |-> TARGET_UID, gid |-> TARGET_GID, mode |-> WantedMode(k)]

\* The ways an entry of kind k can be wrong: its group only, its mode only,
\* or its owner, group and mode.
BadMeta(k, variant) ==
    LET bad == IF k = "dir" THEN 493 ELSE 420 IN
    IF k = "link" THEN GoodMeta(k)
    ELSE IF variant = "group" THEN [GoodMeta(k) EXCEPT !.gid = 0]
    ELSE IF variant = "mode" THEN [GoodMeta(k) EXCEPT !.mode = bad]
    ELSE [kind |-> k, uid |-> 0, gid |-> 0, mode |-> bad]

\* The trees a run can start on: every entry right or wrong, the wrong ones
\* in the same way; the second root there or not.
StartTrees ==
    { [e \in Entries |->
          IF e \in SecondRoot /\ ~second THEN Absent
          ELSE IF wrong[e] THEN BadMeta(TreeKinds[e], variant)
          ELSE GoodMeta(TreeKinds[e])] :
      wrong \in [Entries -> BOOLEAN], variant \in {"group", "mode", "all"},
      second \in BOOLEAN }

InitPerm ==
    /\ ppc = 1
    /\ pprev = "none"
    /\ ptree \in StartTrees
    /\ pbefore = ptree
    /\ pchown = 0 /\ pchmod = 0 /\ perrors = 0 /\ pfixed = 0 /\ plogged = 0
    /\ praised = {}
    /\ WatcherIdle /\ meta = <<>> /\ WorkerIdle
    /\ scene = [s \in Scenes |-> "absent"]
    /\ shunnedFile = [exists |-> FALSE, ids |-> {}]
    /\ WaitIdle /\ DupIdle /\ ProcIdle /\ TagIdle /\ QueueIdle

NextPerm == PVisit \/ PRunAgain

SpecPerm == InitPerm /\ [][NextPerm]_vars


(***************************************************************************)
(* Claims about fix_permissions (checked under SpecPerm).                  *)
(***************************************************************************)
OwnerRight(m) == m.uid = TARGET_UID /\ m.gid = TARGET_GID

\* Every directory is owned by the target and has mode 02775, every regular
\* file is owned by the target and has mode 0664.
AllCorrect(tree) ==
    \A e \in Entries :
        /\ tree[e].kind = "dir"  => OwnerRight(tree[e]) /\ tree[e].mode = 1533
        /\ tree[e].kind = "file" => OwnerRight(tree[e]) /\ tree[e].mode = 436

\* C9: a run that starts on a tree where everything is already right makes
\* no chown and no chmod call, and so does a run that follows a run without
\* errors.
C9_Idempotent ==
    /\ AllCorrect(pbefore) => pchown = 0 /\ pchmod = 0
    /\ pprev = "clean" => pchown = 0 /\ pchmod = 0

\* A finished second run, after a first run without errors, both roots there.
C9_Witness ==
    /\ pprev = "clean" /\ ppc = WalkDone /\ ptree[6].kind = "dir"

LinksUntouched ==
    \A e \in Entries : ptree[e].kind = "link" => ptree[e] = pbefore[e]

\* C10 as stated: after a run every regular file has mode 0664, every
\* directory mode 02775, and every symbolic link is as before.
C10_AsStated ==
    ppc = WalkDone =>
        /\ \A e \in Entries :
              /\ ptree[e].kind = "file" => ptree[e].mode = 436
              /\ ptree[e].kind = "dir"  => ptree[e].mode = 1533
        /\ LinksUntouched

\* C10 amended: after a run every regular file and every directory on which
\* the run raised no OS error has mode 0664, respectively 02775, and every
\* symbolic link is as before.
C10_ModesAfterRun ==
    ppc = WalkDone =>
        /\ \A e \in Entries \ praised :
              /\ ptree[e].kind = "file" => ptree[e].mode = 436
              /\ ptree[e].kind = "dir"  => ptree[e].mode = 1533
        /\ LinksUntouched

\* A finished run without errors on a tree whose first root and file had the
\* wrong mode.
C10_Witness ==
    /\ ppc = WalkDone /\ praised = {} /\ pprev = "none"
    /\ pbefore[1].mode = 493 /\ pbefore[2].mode = 420
    /\ ptree[3].kind = "link"

(***************************************************************************)
(* Claims about the Handler and stash_worker.main (checked under Spec).    *)
(***************************************************************************)
\* C1: the path list sent to metadata_scan by main(paths) holds, for every
\* file p of paths, the parent of p and the parent rewritten by every pair
\* of the path-mutation table.
C1_ScanListHasParents ==
    \A t \in Threads : \A i \in 1..Len(rlog[t]) :
        rlog[t][i].op = "metadata_scan" =>
            \A k \in 1..Len(margs[t]) :
                IsFile(margs[t][k]) =>
                    LET par == PathParent(margs[t][k]) IN
                    /\ par \in Range(rlog[t][i].paths)
                    /\ \A j \in 1..Len(PathMutation) :
                          StrReplace(par, PathMutation[j][1], PathMutation[j][2])
                              \in Range(rlog[t][i].paths)

\* The three calls of on_created and on_moved for the file f.
CreatedMovedCalls(f) ==
    << HandlerCall("fix_single_path", <<f>>),
       HandlerCall("fix_single_path", <<PathParent(f)>>),
       HandlerCall("main", <<f>>) >>

\* C2: for a created or moved event of a file f the handler calls
\* fix_single_path(f), fix_single_path(parent(f)) and main([f]), once each,
\* in this order, and nothing else: its calls so far are always the first
\* ones of that list, and all three once main has been called.
C2_CreatedMovedOrder ==
    (hev.kind \in {"created", "moved"} /\ ~hev.is_directory) =>
        LET want == CreatedMovedCalls(hev.src_path) IN
        /\ Len(hlog) <= 3
        /\ hlog = SubSeq(want, 1, Len(hlog))
        /\ Len(hlog) = (CASE hpc = "fix_src" -> 0
                          [] hpc = "fix_parent" -> 1
                          [] hpc = "call_main" -> 2
                          [] OTHER -> 3)
        /\ hpc = "in_main" <=> mpc["handler"] # "idle"

\* A moved event of a file, handled to the end.
C2_Witness ==
    /\ hev.kind = "moved" /\ ~hev.is_directory /\ hpc = "idle" /\ Len(hlog) = 3

\* C3: handling a deleted, opened or closed event is one step that returns
\* at once, issues no remote call, starts no invocation of main and leaves
\* the file system, the server and the shunned file as they were.
C3_NoOpEvents ==
    [][ (hpc = "idle" /\ hev'.kind \in {"deleted", "opened", "closed"})
            => (hpc' = "idle" /\ UNCHANGED <<meta, workerVars, serverVars>>) ]_vars

\* A deleted event of a file has been handled.
C3_Witness ==
    /\ hev.kind = "deleted" /\ ~hev.is_directory /\ hpc = "idle" /\ hlog = <<>>

\* The ids of the identify call of thread t's invocation.
Submitted(t) ==
    UNION { rlog[t][i].ids : i \in {j \in 1..Len(rlog[t]) : rlog[t][j].op = "metadataIdentify"} }

C8_ShunnedOnlyGrows ==
    [][ shunnedFile.exists =>
            (shunnedFile'.exists /\ shunnedFile.ids \subseteq shunnedFile'.ids) ]_vars

(***************************************************************************)
(* Claims about the process (checked under SpecProc).                      *)
(***************************************************************************)
\* The step begins a call of the poller's cycle.
PollerCallBegins ==
    \/ bpc = "try" /\ bpc' = "in_fix"
    \/ bpc = "call_main" /\ bpc' = "in_main"

\* C11 as stated: once stop() has returned, no fix_permissions call and no
\* stash_worker.main call of the poller begins.
C11_AsStated == [][stopDone => ~PollerCallBegins]_vars

\* C11 amended: once stop() has returned, the poller starts no new cycle:
\* its wait never returns False again, and from the loop test or from the
\* wait the thread only leaves the loop.  (A cycle whose wait had returned
\* before stop() was called runs on.)
C11_NoNewCycleAfterStop ==
    [][ stopDone =>
            /\ ~(bpc = "wait" /\ bpc' = "try")
            /\ (bpc \in {"test", "wait"} /\ bpc' # bpc) => bpc' \in {"exited", "killed"}
      ]_vars

\* stop() returned while the poller, one cycle done, was waiting for the
\* next: the thread has left the loop before the interval was over.
C11_Witness ==
    /\ stopDone /\ bpc = "exited" /\ bwaited = 1 /\ Len(blog) = 2

\* The last call of the poller's log ended by an exception in this step.
PollerCallRaises ==
    /\ blog' # blog /\ blog' # <<>> /\ blog'[Len(blog')].end = "raised"

\* C12: a cycle of the poller that fails (fix_permissions or main raises)
\* does not end the loop: the thread is back at the loop test, from where,
\* stop() not having been called, it waits for the next cycle; the thread
\* leaves the loop only when stop() has been called.
C12_FailedCycleKeepsLoop ==
    [][ /\ PollerCallRaises => bpc' = "test"
        /\ (bpc = "test" /\ ~stopFlag /\ bpc' # bpc) => bpc' = "wait"
        /\ bpc' = "exited" => stopFlag'
      ]_vars

\* The main call of a cycle raised, the poller waited another interval and
\* is entering its next cycle.
C12_Witness ==
    /\ bpc = "try" /\ ~stopFlag /\ bwaited = PollTicks
    /\ Len(blog) = 2 /\ blog[2] = ThreadCall("main", "raised")

\* The observer or the poller has been started, or a handler or a poll cycle
\* has run or is running.
WatchingBegun ==
    \/ ostate # "new" \/ bpc # "new" \/ blog # <<>>
    \/ hev # NoEvent \/ hpc # "idle"
    \/ mpc["handler"] # "idle" \/ mpc["poller"] # "idle"

StartupCalls ==
    << ThreadCall("fix_permissions", "returned"), ThreadCall("main", "returned") >>

\* C13: at startup the main thread calls fix_permissions once, then, after
\* it returned, stash_worker.main once with no paths; the observer and the
\* poller are started, and handlers and poll cycles run, only when that call
\* of main has returned.
C13_StartupOrder ==
    /\ Len(slog) <= 2
    /\ \A i \in 1..Len(slog) : slog[i].call = StartupCalls[i].call
    /\ Len(slog) = 2 => slog[1].end = "returned"
    /\ mpc["main"] # "idle" => (margs["main"] = <<>> /\ Len(slog) = 2 /\ slog[2].end = "running")
    /\ WatchingBegun => slog = StartupCalls

\* After the startup, a handler is inside main while the poller waits.
C13_Witness ==
    /\ slog = StartupCalls /\ ostate = "started" /\ bpc = "wait" /\ hpc = "in_main"

\* The poller's log of a cycle: fix_permissions, then main, main called only
\* when fix_permissions has returned; the thread's position agrees with it.
PollerCycleShape ==
    /\ Len(blog) <= 2
    /\ blog # <<>> => blog[1].call = "fix_permissions"
    /\ Len(blog) = 2 => (blog[1].end = "returned" /\ blog[2].call = "main")
    /\ bpc = "in_fix" => blog = <<ThreadCall("fix_permissions", "running")>>
    /\ bpc = "call_main" => blog = <<ThreadCall("fix_permissions", "returned")>>
    /\ bpc = "in_main" =>
          /\ blog = <<ThreadCall("fix_permissions", "returned"), ThreadCall("main", "running")>>
          /\ margs["poller"] = <<>>
    /\ mpc["poller"] # "idle" <=> bpc = "in_main"

\* C16: the poller is in at most one call of one cycle at a time; a cycle
\* begins only when a wait has lasted the whole interval with stop() not
\* called; a cycle is fix_permissions and then main with no paths, main being
\* called only after fix_permissions has returned and not at all when
\* fix_permissions raised.
C16_PollerCycle ==
    [][ /\ PollerCycleShape'
        /\ (bpc' = "try" /\ bpc # "try") =>
              (bpc = "wait" /\ bwaited = PollTicks /\ ~stopFlag)
        /\ (bpc' = "in_fix" /\ bpc # "in_fix") => bpc = "try"
        /\ (bpc = "in_fix" /\ blog'[1].end = "raised") => bpc' = "test"
      ]_vars

\* A whole cycle has run and the poller is waiting for the next.
C16_Witness ==
    /\ bpc = "wait" /\ bwaited = 1
    /\ blog = <<ThreadCall("fix_permissions", "returned"), ThreadCall("main", "returned")>>

(***************************************************************************)
(* More claims about the Handler and stash_worker.main (checked under      *)
(* Spec).                                                                  *)
(***************************************************************************)
\* C14: while a modified event of a file f is handled, the handler calls
\* main([f]) once and nothing else, and no path's ownership or mode is
\* changed; a created, moved or modified event of a directory is over in the
\* step that dispatches it, with no call made and nothing changed.
C14_ModifiedAndDirectories ==
    [][ /\ (hev'.kind = "modified" /\ ~hev'.is_directory) =>
              /\ meta' = meta
              /\ hlog' = IF hpc' = "call_main" THEN <<>>
                         ELSE <<HandlerCall("main", <<hev'.src_path>>)>>
              /\ hpc' = "in_main" <=> mpc'["handler"] # "idle"
              /\ mpc'["handler"] # "idle" => margs'["handler"] = <<hev'.src_path>>
        /\ (hev'.kind \in {"created", "moved", "modified"} /\ hev'.is_directory) =>
              /\ hpc' = "idle" /\ hlog' = <<>>
              /\ UNCHANGED <<meta, workerVars, serverVars>>
      ]_vars

\* A modified event of a file, handled to the end.
C14_Witness ==
    /\ hev.kind = "modified" /\ ~hev.is_directory /\ hpc = "idle"
    /\ hlog = <<HandlerCall("main", <<FilePath>>)>>

\* C15: the ids an invocation of main submits to the identify job hold no id
\* that shunned_scenes.json held when the invocation read it: the candidates
\* of the identify stage and the ids of the identify call are disjoint from
\* the file's content.
C15_ShunnedNotSubmitted ==
    [][ \A t \in Threads :
          /\ (mpc'[t] \in {"identify", "wait_identify"} /\ shunnedFile'.exists) =>
                cand'[t] \cap shunnedFile'.ids = {}
          /\ (mpc[t] = "identify" /\ mpc'[t] = "wait_identify") =>
                LET sent == rlog'[t][Len(rlog'[t])] IN
                /\ sent.op = "metadataIdentify"
                /\ sent.ids = cand[t]
                /\ shunnedFile.exists => sent.ids \cap shunnedFile.ids = {}
      ]_vars

\* An identify job has been started for a scene while the file holds the id
\* of another scene that is unorganized too.
C15_Witness ==
    /\ mpc["handler"] = "wait_identify"
    /\ shunnedFile.exists
    /\ \E s \in shunnedFile.ids : scene[s] = "unorg" /\ s \notin cand["handler"]
    /\ cand["handler"] # {}

\* The positions of main after the scan job has finished and before the
\* call of metadata_generate.
PostScanStages ==
    {"dups", "find_unorg", "read_shunned", "identify", "wait_identify",
     "requery", "write_shunned", "tag_sweep", "ai_probe", "ai_task",
     "ai_wait"}

\* C17: once the scan job has finished, no stage of main before the call of
\* metadata_generate ends the invocation: from each of them main goes on to
\* a later stage, and an invocation that returns has called
\* metadata_generate last.
C17_PostScanStagesGuarded ==
    [][ \A t \in Threads :
          /\ (mpc[t] \in PostScanStages /\ mpc'[t] # mpc[t]) =>
                mpc'[t] \in PostScanStages \cup {"generate"}
          /\ mpc'[t] = "returned" =>
                rlog'[t][Len(rlog'[t])].op = "metadata_generate"
      ]_vars

\* The wait on the scan job of thread t's invocation did not report success.
ScanWaitFailed(t) == mwait[t] # <<>> /\ mwait[t][1] # "true"

\* C18: when the wait on the scan job ends with False, None or the timeout,
\* main leaves by an exception, having issued metadata_scan and no other
\* remote call; the step changes neither the scenes nor shunned_scenes.json.
C18_FailedScanAborts ==
    [][ \A t \in Threads :
          ScanWaitFailed(t)' =>
              /\ mpc'[t] = "raised"
              /\ Len(rlog'[t]) = 1 /\ rlog'[t][1].op = "metadata_scan"
              /\ Len(mwait'[t]) = 1
              /\ UNCHANGED serverVars
      ]_vars

\* The scan job of an invocation was not found, and the invocation is over.
C18_Witness ==
    /\ mpc["handler"] = "raised" /\ mwait["handler"] = <<"none">>
    /\ hpc = "in_main"

\* The invocation of main by the handler has left by an exception of a
\* wait_for_job that did not report success: the failed assertion, or the
\* timeout.
RescanFailedInWait ==
    /\ hpc = "in_main" /\ mpc["handler"] = "raised"
    /\ mwait["handler"] # <<>>
    /\ mwait["handler"][Len(mwait["handler"])] # "true"

\* C19: when main, called from a handler, fails in a job wait, the exception
\* is caught: the handler method returns and the dispatch thread is ready
\* for the next event.
C19_HandlerCatchesFailure ==
    [][ (RescanFailedInWait /\ hpc' # hpc) => hpc' = "idle" ]_vars

(***************************************************************************)
(* More claims about the process (checked under SpecProc).                 *)
(***************************************************************************)
\* C20: a failure of a remote call or of a job wait never ends the process,
\* not during the initial full rescan either: the main thread is never ended
\* by an exception of stash_worker.main or of the request for the watch
\* directories.
C20_RemoteFailureNeverEndsProcess ==
    spc \notin {"crashed_main", "crashed_config"}

\* Nothing of the watcher has run: no observer, no poller, no event, no cycle.
NothingStarted ==
    /\ ostate = "new" /\ bpc = "new" /\ blog = <<>>
    /\ hev = NoEvent /\ hpc = "idle"
    /\ mpc["handler"] = "idle" /\ mpc["poller"] = "idle"

\* C21: when Watcher.run subscribes, a watch directory that does not exist
\* (it was missing and could not be created) makes run fail before the
\* observer and the poller are started: no event is handled and no poll
\* cycle runs; the observer is started only with every directory there, and
\* Watcher() leaves no directory missing that it could create.
C21_MissingDirectoryIsFatal ==
    [][ /\ (spc = "run" /\ (\E d \in WatchDirs : ~wdirs[d])) =>
              (spc' \in {"run", "crashed_assert"} /\ NothingStarted')
        /\ spc' = "crashed_assert" => (NothingStarted' /\ \E d \in WatchDirs : ~wdirs'[d])
        /\ ostate' = "started" => \A d \in WatchDirs : wdirs'[d]
        /\ spc = "watcher_init" => \A d \in WatchDirs : wdirs[d] => wdirs'[d]
      ]_vars

\* One watch directory was missing and was created, the other could not be
\* created: run has failed.
C21_Witness ==
    /\ spc = "crashed_assert"
    /\ wdirs[<<"/", "lib">>] /\ ~wdirs[<<"/", "pics">>]

(***************************************************************************)
(* More claims about fix_permissions (checked under SpecPerm).             *)
(***************************************************************************)
\* C22: an OS error on an entry does not end the walk, which goes on with
\* the next entry; of the errors of a run the first five, directories and
\* files together, are logged one by one; at the end of the run the error
\* count is the number of entries that raised.
C22_ErrorsCountedWalkGoesOn ==
    [][ /\ (ppc \in Entries /\ ppc' # ppc) => ppc' = ppc + 1
        /\ perrors' = Cardinality(praised')
        /\ plogged' = IF perrors' <= 5 THEN perrors' ELSE 5
        /\ (ppc \in Entries /\ ppc' # ppc) => perrors' \in {perrors, perrors + 1}
      ]_vars

\* A run over both roots in which all six entries raised: five were logged.
C22_Witness ==
    /\ ppc = WalkDone /\ perrors = 6 /\ plogged = 5

(***************************************************************************)
(* More claims about stash_worker.main (checked under Spec).               *)
(***************************************************************************)
\* The last request thread t's invocation has issued.
LastCall(t) == rlog[t][Len(rlog[t])]

\* Thread t's invocation issues a request in this step.
Issues(t) == Len(rlog'[t]) = Len(rlog[t]) + 1

\* C23: the plugin task is started only right after the probe of the AI
\* server was answered, and its job is then waited for; when the probe fails
\* main goes from the probe straight to metadata_generate, starting no plugin
\* task, and from there it only issues metadata_generate or fails in it.
C23_AiHandoff ==
    [][ \A t \in Threads :
          /\ (Issues(t) /\ LastCall(t)'.op = "run_plugin_task") =>
                /\ rlog[t] # <<>> /\ LastCall(t).op = "ai_probe"
                /\ mpc'[t] = "ai_wait"
          /\ (mpc[t] = "ai_wait" /\ mpc'[t] # mpc[t]) =>
                Len(mwait'[t]) = Len(mwait[t]) + 1
          /\ (mpc[t] = "ai_probe" /\ mpc'[t] # mpc[t] /\ ~Issues(t)) =>
                (mpc'[t] = "generate" /\ rlog'[t] = rlog[t])
          /\ (mpc[t] = "generate" /\ Issues(t)) =>
                LastCall(t)'.op = "metadata_generate"
      ]_vars

\* The probe failed and main has returned: it called metadata_generate and
\* started no plugin task.
C23_Witness ==
    /\ mpc["handler"] = "returned"
    /\ LastCall("handler").op = "metadata_generate"
    /\ \A i \in 1..Len(rlog["handler"]) :
          rlog["handler"][i].op \notin {"ai_probe", "run_plugin_task"}

(***************************************************************************)
(* The tagging sweep of stash_worker.main, run after run, with the tags    *)
(* the server holds.  Between two runs scans add scenes and the AI tagger  *)
(* plugin tags scenes.                                                     *)
(***************************************************************************)
MaxRuns == 3

UpdateCall(ids, tag) == [ids |-> ids, tag |-> tag]

\* Lines 473-489 of one run of main.
TSweep ==
    /\ truns < MaxRuns
    /\ truns' = truns + 1
    /\ \/ /\ tpc' = "raised"                    \* find_scenes raised
          /\ tsel' = {} /\ tsent' = <<>>
          /\ UNCHANGED tags
       \/ LET sel == LacksMarker(tags, Present) IN
          /\ tpc' = "done"
          /\ tsel' = sel
          /\ IF sel # {}
             THEN \/ /\ tsent' = <<UpdateCall(sel, "AI_TagMe")>>
                     /\ tags' = TagAdded(tags, sel)
                  \/ /\ tsent' = <<>>           \* caught: except Exception
                     /\ UNCHANGED tags
             ELSE tsent' = <<>> /\ UNCHANGED tags
    /\ UNCHANGED <<scene, shunnedFile>>
    /\ UNCHANGED <<watcherVars, workerVars, waitVars, dupVars, permVars, procVars, queueVars>>

\* A scan adds a scene; it has no tags.
TSceneAdded ==
    /\ \E s \in Scenes :
          /\ scene[s] = "absent"
          /\ scene' = [scene EXCEPT ![s] = "unorg"]
    /\ UNCHANGED <<shunnedFile, tagVars>>
    /\ UNCHANGED <<watcherVars, workerVars, waitVars, dupVars, permVars, procVars, queueVars>>

\* The AI tagger plugin has worked on a scene: it gives it the tag AI_Tagged
\* and keeps or removes AI_TagMe.
TTagged ==
    /\ \E s \in Present, keep \in BOOLEAN :
          /\ "AI_Tagged" \notin tags[s]
          /\ tags' = [tags EXCEPT ![s] =
                         (IF keep THEN @ ELSE @ \ {"AI_TagMe"}) \cup {"AI_Tagged"}]
    /\ UNCHANGED <<tpc, truns, tsel, tsent, serverVars>>
    /\ UNCHANGED <<watcherVars, workerVars, waitVars, dupVars, permVars, procVars, queueVars>>

InitTag ==
    /\ scene \in [Scenes -> {"absent", "unorg"}]
    /\ shunnedFile = [exists |-> FALSE, ids |-> {}]
    /\ tags \in [Scenes -> SUBSET TagNames]
    /\ \A s \in Scenes : scene[s] = "absent" => tags[s] = {}
    /\ tpc = "none" /\ truns = 0 /\ tsel = {} /\ tsent = <<>>
    /\ WatcherIdle /\ InitMeta /\ WorkerIdle
    /\ WaitIdle /\ DupIdle /\ PermIdle /\ ProcIdle /\ QueueIdle

NextTag == TSweep \/ TSceneAdded \/ TTagged

SpecTag == InitTag /\ [][NextTag]_vars

\* A sweep ends in this step without an exception.
SweepDone == truns' = truns + 1 /\ tpc' = "done"

\* The scenes the previous sweep's update gave a tag to.
SweptBefore == IF tsent = <<>> THEN {} ELSE tsent[1].ids

Rescanners == {"handler", "poller"}

\* Lines 473-505: the tagging sweep, the AI handoff and metadata_generate.
MRest(t) ==
    /\ mpc[t] = "tag_sweep"
    /\ \E end \in {"returned", "raised"} : Goto(t, end)
    /\ UNCHANGED <<margs, cand, still, rlog, mwait>>
    /\ UNCHANGED <<watcherVars, serverVars, waitVars, dupVars, permVars, procVars, tagVars, queueVars>>

Stages(t) ==
    \/ MScan(t) \/ MWaitScan(t) \/ MDups(t)
    \/ MFindUnorg(t) \/ MReadShunned(t)
    \/ MIdentify(t) \/ MWaitIdentify(t) \/ MRequery(t)
    \/ MWriteShunned(t) \/ MRest(t)

InitRace ==
    /\ hev = Event("modified", FALSE)
    /\ hpc = "call_main"
    /\ hlog = <<>>
    /\ InitMeta
    /\ WorkerIdle
    /\ scene \in [Scenes -> {"absent", "unorg"}]
    /\ shunnedFile = [exists |-> FALSE, ids |-> {}]
    /\ spc = "loop" /\ slog = <<>>
    /\ wdirs = [d \in WatchDirs |-> TRUE]
    /\ ostate = "started"
    /\ stopFlag = FALSE /\ stopDone = FALSE
    /\ bpc = "call_main" /\ bwaited = PollTicks
    /\ blog = <<ThreadCall("fix_permissions", "returned")>>
    /\ WaitIdle /\ DupIdle /\ PermIdle /\ TagIdle /\ QueueIdle

NextRace ==
    \/ HCallMain \/ HMainReturned \/ HMainRaised
    \/ BCallMain \/ BMainEnd
    \/ Stages("handler")
    \/ Stages("poller")

SpecRace == InitRace /\ [][NextRace]_vars

\* C25: nothing local keeps a thread from calling stash_worker.main, or its
\* invocation from sending its scan request, while the other thread's
\* invocation is in progress: whatever the other thread is doing, the call
\* and the scan request can be made.
C25_NoMutualExclusion ==
    /\ hpc = "call_main" => ENABLED HCallMain
    /\ bpc = "call_main" => ENABLED BCallMain
    /\ \A t \in Rescanners : mpc[t] = "start" => ENABLED MScan(t)

\* The handler's invocation and the poller's are in progress at the same
\* time, each waiting for a scan job of its own.
C25_Witness ==
    /\ hpc = "in_main" /\ bpc = "in_main"
    /\ \A t \in Rescanners :
          /\ mpc[t] = "wait_scan"
          /\ Len(rlog[t]) = 1 /\ rlog[t][1].op = "metadata_scan"

\* C29: of two invocations in progress at once, the one that overwrites
\* shunned_scenes.json after the other wrote it does not drop an ID the other
\* found still unorganized (and that is unorganized still), although it had
\* read the file before the other wrote it.
C29_NoLostShunnedIds ==
    [][ \A t \in Rescanners, u \in Rescanners :
          ( /\ t # u
            /\ mpc[t] = "write_shunned" /\ mpc'[t] # mpc[t]
            /\ mpc[u] \in {"tag_sweep", "returned"}
            /\ shunnedFile = Written(shunnedFile, still[u])
            /\ cand[t] \cap still[u] # {} )
          => {s \in still[u] : scene[s] = "unorg"} \subseteq shunnedFile'.ids
      ]_vars

(***************************************************************************)
(* The observer with its event queue.  Watcher.run makes one Observer with *)
(* one Handler; the emitters of the watched directories put their events   *)
(* into the observer's queue, and the observer thread takes them out one   *)
(* by one and calls the handler.  The rescan of an event is one step here  *)
(* (MRun); its stages are the subject of Spec.                             *)
(***************************************************************************)
MaxQueue == 2

\* An emitter puts an event into the queue.
OEmit ==
    /\ ostate = "started"
    /\ Len(oqueue) < MaxQueue
    /\ \E k \in EventKinds, d \in BOOLEAN : oqueue' = Append(oqueue, Event(k, d))
    /\ UNCHANGED <<watcherVars, workerVars, serverVars, waitVars, dupVars, permVars, procVars, tagVars>>

\* The observer thread takes the oldest event and calls the handler.
QDispatch ==
    /\ ostate = "started"
    /\ CanDispatch(hpc)
    /\ oqueue # <<>>
    /\ Handle(Head(oqueue))
    /\ oqueue' = Tail(oqueue)
    /\ UNCHANGED <<meta, workerVars, serverVars, waitVars, dupVars, permVars, procVars, tagVars>>

InitQueue ==
    /\ WatcherIdle /\ InitMeta /\ WorkerIdle
    /\ scene = [s \in Scenes |-> "absent"]
    /\ shunnedFile = [exists |-> FALSE, ids |-> {}]
    /\ WaitIdle /\ DupIdle /\ PermIdle /\ ProcIdle /\ TagIdle /\ QueueIdle

NextQueue ==
    \/ OEmit \/ QDispatch
    \/ HFixSrc \/ HFixParent \/ HCallMain \/ MRun("handler")
    \/ HMainReturned \/ HMainRaised

SpecQueue == InitQueue /\ [][NextQueue]_vars

\* C26: the events leave the queue in the order they entered it, one at a
\* time; an event is taken, and its handler starts, only when the handler of
\* the event before it has returned, its call of stash_worker.main included;
\* so the only invocation of main on the dispatch thread is the one of the
\* event being handled.
C26_OneEventAtATime ==
    [][ /\ Len(oqueue') > Len(oqueue) =>
              (Len(oqueue') = Len(oqueue) + 1
               /\ SubSeq(oqueue', 1, Len(oqueue)) = oqueue)
        /\ Len(oqueue') < Len(oqueue) =>
              /\ oqueue' = Tail(oqueue)
              /\ hev' = Head(oqueue)
              /\ hpc = "idle" /\ mpc["handler"] = "idle"
        /\ (hev' # hev \/ (hlog' = <<>> /\ hlog # <<>>)) =>
              Len(oqueue') < Len(oqueue)
        /\ mpc'["handler"] # "idle" => (hpc' = "in_main" /\ hev' = hev)
      ]_vars

\* The rescan of a created file is in progress and a later event waits in
\* the queue.
C26_Witness ==
    /\ hpc = "in_main" /\ mpc["handler"] = "start"
    /\ hev = Event("created", FALSE)
    /\ oqueue # <<>> /\ Head(oqueue) = Event("modified", FALSE)

(***************************************************************************)
(* Shutdown (checked under SpecProc and SpecProcFair).                     *)
(***************************************************************************)
\* The positions of the poller thread inside a call of its cycle.
InCycle == {"in_fix", "in_main"}

\* C27: when the process exits after an interrupt, no handler method, no
\* call of a poll cycle and no invocation of stash_worker.main is in
\* progress: what had begun has run to its end.
C27_ShutdownLetsWorkFinish ==
    [][ (spc = "join" /\ spc' = "exit") =>
          /\ hpc \in {"idle", "dead"} /\ mpc["handler"] = "idle"
          /\ bpc \notin InCycle /\ mpc["poller"] = "idle"
      ]_vars

\* The threads are scheduled: the poller thread takes its next step, and the
\* calls of its cycle come to an end.
SpecProcFair ==
    /\ SpecProc
    /\ WF_vars(BTest) /\ WF_vars(BWaitSignaled) /\ WF_vars(BWaitTimeout)
    /\ WF_vars(BFixBegin) /\ WF_vars(BFixEnd)
    /\ WF_vars(BCallMain) /\ WF_vars(MRun("poller")) /\ WF_vars(BMainEnd)

\* C30: once stop() has returned the poller thread comes to its end; its
\* wait does not go on for a tick more, and the cycle in progress, when its
\* last call has ended, leads to the loop test and nowhere else.
C30_PollerTerminates ==
    /\ stopDone ~> bpc \in {"exited", "killed"}
    /\ [][ stopDone =>
             /\ bpc = "wait" => bwaited' = bwaited
             /\ (bpc = "in_main" /\ bpc' # bpc) => bpc' \in {"test", "killed"}
         ]_vars

\* stop() was called during a cycle; the cycle's call of main has ended and
\* the poller has left its loop, before the main thread has gone on to stop
\* the observer.
C30_Witness ==
    /\ stopDone /\ spc = "stop_observer"
    /\ bpc = "exited" /\ bwaited = 0
    /\ Len(blog) = 2 /\ blog[2] = ThreadCall("main", "raised")

\* Thread t's invocation has sent an identify request.
Identified(t) == \E i \in 1..Len(rlog[t]) : rlog[t][i].op = "metadataIdentify"

\* C28: after the shunned IDs are removed, main goes on to the identify call
\* exactly when a candidate is left; an identify request is sent for a
\* non-empty candidate list only; and shunned_scenes.json is changed only by
\* an invocation that had a candidate and has sent its identify request.
C28_NoCandidateNoIdentify ==
    [][ /\ \A t \in Threads :
              /\ (mpc[t] = "read_shunned" /\ mpc'[t] # mpc[t]) =>
                    /\ mpc'[t] = "identify" <=> cand'[t] # {}
                    /\ cand'[t] = {} => mpc'[t] = "tag_sweep"
              /\ (Issues(t) /\ LastCall(t)'.op = "metadataIdentify") =>
                    (cand[t] # {} /\ LastCall(t)'.ids = cand[t])
              /\ (cand[t] = {} /\ mpc[t] \notin {"idle", "start", "wait_scan", "dups",
                                                 "find_unorg", "read_shunned"}) =>
                    (~Identified(t)' /\ shunnedFile' = shunnedFile)
        /\ shunnedFile' # shunnedFile =>
              \E t \in Threads : mpc[t] = "write_shunned" /\ cand[t] # {} /\ Identified(t)
      ]_vars

\* There are unorganized scenes and all of them are in shunned_scenes.json:
\* the invocation has returned without an identify request.
C28_Witness ==
    /\ mpc["handler"] = "returned"
    /\ cand["handler"] = {} /\ ~Identified("handler")
    /\ Unorganized # {} /\ shunnedFile.exists /\ Unorganized \subseteq shunnedFile.ids

====
